---- MODULE Spec2Model ----
(***************************************************************************)
(* Model of afilia's repository bootstrap (src/filesystem/repository.rs):  *)
(* RepositoryID (identity and signature), RepositoryDB (catalog database   *)
(* and schema script) and Repository::create, run by two calls that target *)
(* the same directory.                                                     *)
(***************************************************************************)
EXTENDS Integers, Sequences, FiniteSets, TLC

(* ------------------------------ bounds --------------------------------- *)

\* uuids are drawn from 0..MaxUuid
MaxUuid == 1
\* longest name / payload text explored by the signature specification
MaxLen == 2

\* characters of the texts a caller supplies
Alphabet == {"a", ":"}
\* the (name, payload) arguments the calls of the create specification use
CallNames == {<<"a">>, <<"a", ":">>}
CallPayloads == {<<>>, <<":">>}

\* the two Repository::create calls issued against the one directory
Calls == {1, 2}
UuidSet == 0..MaxUuid
Strs(n) == UNION {[1..k -> Alphabet] : k \in 0..n}
\* spec.md: "name: caller-supplied human-readable label, arbitrary non-empty text"
NameSet == Strs(MaxLen) \ {<<>>}
PayloadSet == Strs(MaxLen)

(* --------------------------- text and bytes ---------------------------- *)

HexChars == <<"0", "1", "2", "3", "4", "5", "6", "7",
              "8", "9", "a", "b", "c", "d", "e", "f">>
HexChar(d) == HexChars[d + 1]

RECURSIVE HexDigits(_, _)
\* n as k lower-case hex digits, most significant first, zero-padded
HexDigits(n, k) ==
    IF k = 0 THEN <<>> ELSE Append(HexDigits(n \div 16, k - 1), HexChar(n % 16))

\* `{}` of a Uuid: its 128 bits as 32 hex digits in groups of 8-4-4-4-12
\* joined by hyphens (36 characters)
UuidDisplay(u) ==
    LET h == HexDigits(u, 32)
    IN  SubSeq(h, 1, 8) \o <<"-">> \o SubSeq(h, 9, 12) \o <<"-">> \o
        SubSeq(h, 13, 16) \o <<"-">> \o SubSeq(h, 17, 20) \o <<"-">> \o
        SubSeq(h, 21, 32)

\* str::as_bytes on the characters the model uses (ASCII codes)
Ascii(c) ==
    CASE c = ":" -> 58
      [] c = "-" -> 45
      [] c = "0" -> 48 [] c = "1" -> 49 [] c = "2" -> 50 [] c = "3" -> 51
      [] c = "4" -> 52 [] c = "5" -> 53 [] c = "6" -> 54 [] c = "7" -> 55
      [] c = "8" -> 56 [] c = "9" -> 57
      [] c = "a" -> 97 [] c = "b" -> 98 [] c = "c" -> 99 [] c = "d" -> 100
      [] c = "e" -> 101 [] c = "f" -> 102
AsBytes(s) == [i \in 1..Len(s) |-> Ascii(s[i])]

\* format!("{}:{}:{}", repo_uuid, name, payload) with the payload left out
SignInputNoPayload(uuid, name, payload) ==
    UuidDisplay(uuid) \o <<":">> \o name \o <<":">>
\* format!("{}:{}:{}", repo_uuid, name, payload) with the second ':' left out
SignInputNoSeparator(uuid, name, payload) ==
    UuidDisplay(uuid) \o <<":">> \o name \o payload
\* format!("{}:{}:{}", repo_uuid, name, payload)
SignInput(uuid, name, payload) ==
    UuidDisplay(uuid) \o <<":">> \o name \o <<":">> \o payload

\* blake3::hash, taken as injective on its input bytes: the digest is
\* represented by the bytes that were hashed
Blake3Hash(bytes) == [digest |-> bytes]

\* Hash::to_hex: two lower-case hex digits per digest byte
ToHex(h) ==
    [i \in 1..(2 * Len(h.digest)) |->
        IF i % 2 = 1 THEN HexChar(h.digest[(i + 1) \div 2] \div 16)
                     ELSE HexChar(h.digest[i \div 2] % 16)]

\* RepositoryID::sign
RepositoryID_sign(uuid, name, payload) ==
    Blake3Hash(AsBytes(SignInput(uuid, name, payload)))

\* RepositoryID::new once Uuid::new_v4() has produced uuid
RepositoryID_new(uuid, name, payload) ==
    [uuid |-> uuid, name |-> name,
     sign |-> ToHex(RepositoryID_sign(uuid, name, payload))]

\* serde_json::to_string_pretty(self): an object of three members, the uuid
\* as its hyphenated text
MarkerContent(rid) ==
    [uuid |-> UuidDisplay(rid.uuid), name |-> rid.name, sign |-> rid.sign]

(* --------------------------- catalog schema ---------------------------- *)

Tables == {"storage_unit", "main_catalog", "queue", "parameter"}

\* the five statements of RepositoryDB::create, in script order: the table a
\* statement creates, whether it carries IF NOT EXISTS, and whether its text
\* parses (the main_catalog statement leaves "storage_path VARCHAR(" open)
sql_script ==
    << [table |-> "storage_unit", if_not_exists |-> FALSE, wellformed |-> TRUE],
       [table |-> "main_catalog", if_not_exists |-> TRUE,  wellformed |-> FALSE],
       [table |-> "storage_unit", if_not_exists |-> FALSE, wellformed |-> TRUE],
       [table |-> "queue",        if_not_exists |-> TRUE,  wellformed |-> TRUE],
       [table |-> "parameter",    if_not_exists |-> TRUE,  wellformed |-> TRUE] >>

Ok(v) == [ok |-> TRUE, value |-> v]
\* AppError::from_error(err, ""): InternalError::from(rusqlite::Error) is Db
AppError_from_error(cause) == [ok |-> FALSE, kind |-> "Db", cause |-> cause, msg |-> ""]

\* Connection::execute of one CREATE TABLE statement on a database holding
\* `tables`: the outcome and the tables afterwards
ConnectionExecute(tables, sql) ==
    IF ~sql.wellformed
      THEN [res |-> [ok |-> FALSE, cause |-> "syntax error"], tables |-> tables]
    ELSE IF sql.table \in tables
      THEN IF sql.if_not_exists
             THEN [res |-> [ok |-> TRUE, rows |-> 0], tables |-> tables]
             ELSE [res |-> [ok |-> FALSE, cause |-> "table already exists"],
                   tables |-> tables]
    ELSE [res |-> [ok |-> TRUE, rows |-> 0], tables |-> tables \cup {sql.table}]

\* RepositoryDB::execute on a live connection: the match on the outcome
RepositoryDB_execute(tables, sql) ==
    LET r == ConnectionExecute(tables, sql)
    IN  [res |-> IF r.res.ok THEN Ok(r.res.rows)
                 ELSE AppError_from_error(r.res.cause),
         tables |-> r.tables]

(* ------------------------------- state --------------------------------- *)

\* a value that is not there yet (an unset Option) is the empty sequence, a
\* value v that is there is <<v>>
None == <<>>
Some(v) == <<v>>

\* the marker file: absent, or present with no content yet (just created or
\* truncated), or present holding a serialized identity
NoFile == [exists |-> FALSE, content |-> None]
EmptyFile == [exists |-> TRUE, content |-> None]
FileWith(c) == [exists |-> TRUE, content |-> Some(c)]
NotYet == "not yet"

VARIABLES
    pc,           \* per call: where the call stands in Repository::create
    args,         \* per call: the (name, payload) it was given
    rid,          \* per call: Some(the RepositoryID it built), or None
    conn,         \* per call: RepositoryDB.conn: NotYet, "Some" or "None"
    stmt,         \* per call: index of the next statement of sql_script
    results,      \* per call: what execute returned, statement by statement
    prov,         \* per call: Some(what RepositoryDB::create returned), or None
    steps,        \* per call: the durable steps it has taken, in order
    seen_marker,  \* per call: Some(the marker file as it was when serialize began)
    prior_runs,   \* per call: calls whose provisioning had ended when its own began
    panic_at,     \* per call: the unwrap that aborted it, or NotYet
    marker,       \* the directory: content of .afilia_repo
    db_exists,    \* the directory: whether afilia_repo.db exists
    db_tables,    \* the directory: tables of afilia_repo.db
    t1, t2,       \* signature specification: two (id, name, payload) triples
    d1, d2        \* signature specification: their hex digests, or None

cvars == <<pc, args, rid, conn, stmt, results, prov, steps, seen_marker,
           prior_runs, panic_at, marker, db_exists, db_tables>>
svars == <<t1, t2, d1, d2>>
vars == <<cvars, svars>>

\* the order of Repository::create with the marker written before the
\* database is opened
NextPcMarkerFirst(at) ==
    CASE at = "call"        -> "new_id"
      [] at = "new_id"      -> "file_create"
      [] at = "file_create" -> "write"
      [] at = "write"       -> "open_db"
      [] at = "open_db"     -> "execute"
      [] at = "execute"     -> "return"
      [] at = "return"      -> "returned"
\* the order of Repository::create: the struct literal evaluates its fields
\* as written (id: RepositoryID::new, database: RepositoryDB::new), then
\* id.serialize, then database.create, then return
NextPc(at) ==
    CASE at = "call"        -> "new_id"
      [] at = "new_id"      -> "open_db"
      [] at = "open_db"     -> "file_create"
      [] at = "file_create" -> "write"
      [] at = "write"       -> "execute"
      [] at = "execute"     -> "return"
      [] at = "return"      -> "returned"

UsedUuids == {rid[q][1].uuid : q \in {c \in Calls : rid[c] # None}}

CreateInit ==
    /\ pc = [p \in Calls |-> "idle"]
    /\ args = [p \in Calls |-> NotYet]
    /\ rid = [p \in Calls |-> None]
    /\ conn = [p \in Calls |-> NotYet]
    /\ stmt = [p \in Calls |-> 1]
    /\ results = [p \in Calls |-> <<>>]
    /\ prov = [p \in Calls |-> None]
    /\ steps = [p \in Calls |-> <<>>]
    /\ seen_marker = [p \in Calls |-> None]
    /\ prior_runs = [p \in Calls |-> {}]
    /\ panic_at = [p \in Calls |-> NotYet]
    /\ marker = NoFile
    /\ db_exists = FALSE
    /\ db_tables = {}

SignIdle ==
    /\ t1 = [uuid |-> 0, name |-> <<"a">>, payload |-> <<>>]
    /\ t2 = [uuid |-> 0, name |-> <<"a">>, payload |-> <<>>]
    /\ d1 = None
    /\ d2 = None

Init == CreateInit /\ SignIdle

\* Repository::create(path, name, payload) is entered
Call(p) ==
    /\ pc[p] = "idle"
    /\ \E n \in CallNames, s \in CallPayloads :
          args' = [args EXCEPT ![p] = [name |-> n, payload |-> s]]
    /\ pc' = [pc EXCEPT ![p] = NextPc("call")]
    /\ UNCHANGED <<rid, conn, stmt, results, prov, steps, seen_marker,
                   prior_runs, panic_at, marker, db_exists, db_tables, svars>>

\* id: RepositoryID::new(name, payload); Uuid::new_v4() is a uuid no other
\* identity holds
NewId(p) ==
    /\ pc[p] = "new_id"
    /\ \E u \in UuidSet \ UsedUuids :
          rid' = [rid EXCEPT ![p] =
                     Some(RepositoryID_new(u, args[p].name, args[p].payload))]
    /\ steps' = [steps EXCEPT ![p] = Append(@, "identity")]
    /\ pc' = [pc EXCEPT ![p] = NextPc("new_id")]
    /\ UNCHANGED <<args, conn, stmt, results, prov, seen_marker, prior_runs,
                   panic_at, marker, db_exists, db_tables, svars>>

\* database: RepositoryDB::new("repo1", &repopath): Connection::open creates
\* the database file when it is absent; a failure to open is turned into
\* conn = None by .ok()
OpenDb(p) ==
    /\ pc[p] = "open_db"
    /\ \E opened \in BOOLEAN :
          /\ conn' = [conn EXCEPT ![p] = IF opened THEN "Some" ELSE "None"]
          /\ db_exists' = (db_exists \/ opened)
    /\ steps' = [steps EXCEPT ![p] = Append(@, "db_open")]
    /\ pc' = [pc EXCEPT ![p] = NextPc("open_db")]
    /\ UNCHANGED <<args, rid, stmt, results, prov, seen_marker, prior_runs,
                   panic_at, marker, db_tables, svars>>

\* RepositoryID::serialize, File::create(..).unwrap(): creates the marker
\* file or truncates the one that is there; panics when it cannot
SerializeCreate(p) ==
    /\ pc[p] = "file_create"
    /\ seen_marker' = [seen_marker EXCEPT ![p] = Some(marker)]
    /\ \E created \in BOOLEAN :
          IF created
            THEN /\ marker' = EmptyFile
                 /\ steps' = [steps EXCEPT ![p] = Append(@, "marker_create")]
                 /\ pc' = [pc EXCEPT ![p] = NextPc("file_create")]
                 /\ UNCHANGED panic_at
            ELSE /\ pc' = [pc EXCEPT ![p] = "panicked"]
                 /\ panic_at' = [panic_at EXCEPT ![p] = "File::create"]
                 /\ UNCHANGED <<marker, steps>>
    /\ UNCHANGED <<args, rid, conn, stmt, results, prov, prior_runs,
                   db_exists, db_tables, svars>>

\* RepositoryID::serialize, to_string_pretty and writeln!(..).unwrap():
\* writes the identity from the start of the file; panics when it cannot.
\* The file then reads as this identity (bytes a longer identity of another
\* writer may leave behind past its end are not tracked).
SerializeWrite(p) ==
    /\ pc[p] = "write"
    /\ \E written \in BOOLEAN :
          IF written
            THEN /\ marker' = FileWith(MarkerContent(rid[p][1]))
                 /\ steps' = [steps EXCEPT ![p] = Append(@, "marker_write")]
                 /\ pc' = [pc EXCEPT ![p] = NextPc("write")]
                 /\ UNCHANGED panic_at
            ELSE /\ pc' = [pc EXCEPT ![p] = "panicked"]
                 /\ panic_at' = [panic_at EXCEPT ![p] = "writeln"]
                 /\ UNCHANGED <<marker, steps>>
    /\ UNCHANGED <<args, rid, conn, stmt, results, prov, seen_marker,
                   prior_runs, db_exists, db_tables, svars>>

\* one turn of the loop of RepositoryDB::create: self.execute(sql, []) with
\* its result dropped; execute unwraps conn and panics on None. A statement
\* is one SQLite transaction, so statements of two connections interleave
\* whole.
ExecuteStmt(p) ==
    /\ pc[p] = "execute"
    /\ stmt[p] <= Len(sql_script)
    /\ prior_runs' = [prior_runs EXCEPT ![p] =
                        IF stmt[p] = 1 THEN {q \in Calls : prov[q] # None} ELSE @]
    /\ IF conn[p] = "None"
         THEN /\ pc' = [pc EXCEPT ![p] = "panicked"]
              /\ panic_at' = [panic_at EXCEPT ![p] = "RepositoryDB::execute"]
              /\ UNCHANGED <<stmt, results, steps, db_tables>>
         ELSE LET r == RepositoryDB_execute(db_tables, sql_script[stmt[p]])
              IN  /\ db_tables' = r.tables
                  /\ results' = [results EXCEPT ![p] = Append(@, r.res)]
                  /\ steps' = [steps EXCEPT ![p] =
                                 IF stmt[p] = 1 THEN Append(@, "schema") ELSE @]
                  /\ stmt' = [stmt EXCEPT ![p] = @ + 1]
                  /\ UNCHANGED <<pc, panic_at>>
    /\ UNCHANGED <<args, rid, conn, prov, seen_marker, marker, db_exists, svars>>

\* the loop of RepositoryDB::create is over: return Ok(())
ProvisionReturn(p) ==
    /\ pc[p] = "execute"
    /\ stmt[p] > Len(sql_script)
    /\ prov' = [prov EXCEPT ![p] = Some(Ok("unit"))]
    /\ pc' = [pc EXCEPT ![p] = NextPc("execute")]
    /\ UNCHANGED <<args, rid, conn, stmt, results, steps, seen_marker,
                   prior_runs, panic_at, marker, db_exists, db_tables, svars>>

\* Repository::create drops the result of database.create() and returns
\* the repository
Return(p) ==
    /\ pc[p] = "return"
    /\ pc' = [pc EXCEPT ![p] = NextPc("return")]
    /\ UNCHANGED <<args, rid, conn, stmt, results, prov, steps, seen_marker,
                   prior_runs, panic_at, marker, db_exists, db_tables, svars>>

Next ==
    \E p \in Calls :
        \/ Call(p)
        \/ NewId(p)
        \/ OpenDb(p)
        \/ SerializeCreate(p)
        \/ SerializeWrite(p)
        \/ ExecuteStmt(p)
        \/ ProvisionReturn(p)
        \/ Return(p)

Spec == Init /\ [][Next]_vars

(* ----------------------- signature specification ----------------------- *)

Triples == [uuid : UuidSet, name : NameSet, payload : PayloadSet]

\* two triples that share the id, or share name and payload
SignInit ==
    /\ CreateInit
    /\ t1 \in Triples
    /\ t2 \in {t \in Triples : \/ t.uuid = t1.uuid
                                \/ (t.name = t1.name /\ t.payload = t1.payload)}
    /\ d1 = None
    /\ d2 = None

\* the sign field RepositoryID::new computes for a triple
SignOf(t) == RepositoryID_new(t.uuid, t.name, t.payload).sign

SignFirst ==
    /\ d1 = None
    /\ d1' = Some(SignOf(t1))
    /\ UNCHANGED <<cvars, t1, t2, d2>>

SignSecond ==
    /\ d1 # None
    /\ d2 = None
    /\ d2' = Some(SignOf(t2))
    /\ UNCHANGED <<cvars, t1, t2, d1>>

SignNext == SignFirst \/ SignSecond

SpecSign == SignInit /\ [][SignNext]_vars

(* ------------------------------ properties ----------------------------- *)

Range(f) == {f[i] : i \in DOMAIN f}
IsPrefix(a, b) == Len(a) <= Len(b) /\ a = SubSeq(b, 1, Len(a))
NoColon(s) == \A i \in DOMAIN s : s[i] # ":"

Done(p) == pc[p] \in {"returned", "panicked"}
\* p is the only call the directory has seen
Alone(p) == \A q \in Calls \ {p} : pc[q] = "idle"
Signed == d1 # None /\ d2 # None
DifferInOne(a, b) ==
    Cardinality({f \in {"uuid", "name", "payload"} : a[f] # b[f]}) = 1
CodeOrder == <<"identity", "db_open", "marker_create", "marker_write", "schema">>

\* C1: whenever Repository::create returns a Repository for a fresh
\* directory, the directory holds the marker file and the database file and
\* the database holds all four tables.
C1_CreatePostcondition ==
    \A p \in Calls :
        (pc[p] = "returned" /\ Alone(p)) =>
            (marker.exists /\ db_exists /\ db_tables = Tables)

\* C2: Repository::create is all-or-nothing: a call that has ended either
\* succeeded with marker and fully provisioned database in place, or failed
\* and left neither a marker file nor a database file.
C2_AllOrNothing ==
    \A p \in Calls :
        (Done(p) /\ Alone(p)) =>
            \/ (pc[p] = "returned" /\ marker.exists /\ db_exists /\ db_tables = Tables)
            \/ (pc[p] = "panicked" /\ ~marker.exists /\ ~db_exists)

\* C3: when two Repository::create calls on the same path have both ended
\* (the file system having refused neither of them the marker or the
\* database file), exactly one returned a repository, the other ended with an explicit
\* "already exists" failure, and the marker holds the identity of the one
\* that succeeded.
C3_ExactlyOneCreates ==
    (\A p \in Calls : Done(p) /\ conn[p] = "Some"
                      /\ panic_at[p] \notin {"File::create", "writeln"}) =>
        \E p \in Calls :
            /\ pc[p] = "returned"
            /\ \A q \in Calls \ {p} :
                  pc[q] = "panicked" /\ panic_at[q] = "already exists"
            /\ marker = FileWith(MarkerContent(rid[p][1]))

\* C4: a run of RepositoryDB::create on a database that an earlier run has
\* already provisioned executes every statement without a failure, returns
\* success and leaves exactly the four tables.
C4_ProvisionIdempotent ==
    \A p \in Calls :
        (prov[p] # None /\ prior_runs[p] # {}) =>
            /\ \A i \in DOMAIN results[p] : results[p][i].ok
            /\ prov[p][1].ok
            /\ db_tables = Tables

\* C5: RepositoryDB::create returns Ok only when every statement it
\* executed succeeded.
C5_ProvisionSurfacesFailures ==
    \A p \in Calls :
        (prov[p] # None /\ prov[p][1].ok) =>
            \A i \in DOMAIN results[p] : results[p][i].ok

\* C6: a marker that held an identity when serialize began still holds that
\* identity afterwards (the code takes no overwrite decision).
C6_MarkerNotReplaced ==
    \A p \in Calls :
        (seen_marker[p] # None /\ seen_marker[p][1].content # None) =>
            marker = seen_marker[p][1]

\* C7: RepositoryDB::execute always returns a value, also when conn is None:
\* no call is ever aborted inside execute.
C7_ExecuteReturns ==
    \A p \in Calls : panic_at[p] # "RepositoryDB::execute"

\* C8: signing is a function of (id, name, payload): equal triples give
\* equal digests, and triples that differ in exactly one of id, name and
\* payload give different digests.
C8_SignDeterminedByTriple ==
    Signed =>
        /\ (t1 = t2 => d1 = d2)
        /\ (DifferInOne(t1, t2) => d1 # d2)
C8_Witness ==
    /\ Signed
    /\ t1.uuid = t2.uuid /\ t1.name = t2.name /\ t1.payload # t2.payload
    /\ Len(t1.payload) = MaxLen
    /\ d1 # d2

C10_PairEncodingInjective ==
    (Signed /\ t1.uuid = t2.uuid
            /\ <<t1.name, t1.payload>> # <<t2.name, t2.payload>>) => d1 # d2
\* C10 as amended: for a fixed id, two different (name, payload) pairs get
\* different signatures when neither name contains ':' or neither payload
\* contains ':'.
C10_InjectiveWithoutColon ==
    (Signed /\ t1.uuid = t2.uuid
            /\ <<t1.name, t1.payload>> # <<t2.name, t2.payload>>
            /\ \/ (NoColon(t1.name) /\ NoColon(t2.name))
               \/ (NoColon(t1.payload) /\ NoColon(t2.payload))) => d1 # d2
C10_Witness ==
    /\ Signed
    /\ t1.uuid = t2.uuid
    /\ t1.name # t2.name /\ t1.payload # t2.payload
    /\ NoColon(t1.name) /\ NoColon(t2.name)
    /\ ~NoColon(t1.payload) /\ ~NoColon(t2.payload)
    /\ d1 # d2

====
